---------------------------- MODULE Spec2Model ----------------------------
(***************************************************************************)
(* Azure DevOps MCP server: startup (main), the tool registry, and the     *)
(* handlers of the core, work and repo tool groups, as state machines      *)
(* whose steps are the handlers' synchronous runs between two awaits.      *)
(* The remote service, the identity provider and the invoking client are   *)
(* the environment: their answers are drawn from small sets.               *)
(***************************************************************************)
EXTENDS Integers, Sequences, FiniteSets, TLC

(***************************************************************************)
(* Bounds of the model.                                                    *)
(***************************************************************************)
\* invocations the client submits in one run of the process
MaxInvocations == 2
\* longest `iterations` array the client submits
MaxItems == 2
\* longest list of refs the remote service returns
MaxRefs == 2

(***************************************************************************)
(* JavaScript values, tagged with their type.                              *)
(***************************************************************************)
Undef == [t |-> "undefined"]
Null == [t |-> "null"]
Str(s) == [t |-> "string", v |-> s]
Num(n) == [t |-> "number", v |-> n]
Bool(b) == [t |-> "boolean", v |-> b]
Arr(s) == [t |-> "array", v |-> s]
Obj(r) == [t |-> "object", v |-> r]

\* JavaScript truthiness, as read by `if (x)`, `!x` and `x ? a : b`
Truthy(x) ==
  CASE x.t = "undefined" -> FALSE
    [] x.t = "null" -> FALSE
    [] x.t = "string" -> x.v # ""
    [] x.t = "number" -> x.v # 0
    [] x.t = "boolean" -> x.v
    [] OTHER -> TRUE

\* JSON.stringify(x, null, 2): undefined for undefined, else a string that
\* encodes x
Stringify(x) ==
  IF x.t = "undefined" THEN Undef ELSE [t |-> "string", json |-> x]

\* x is null or undefined: what `x?.` stops at
Nullish(x) == x.t \in {"undefined", "null"}

\* Array.prototype.slice(0, end) for an integer end
Slice0(s, end) ==
  LET n == Len(s)
      e == IF end < 0 THEN (IF n + end < 0 THEN 0 ELSE n + end)
           ELSE (IF end > n THEN n ELSE end)
  IN SubSeq(s, 1, e)

\* all sequences over S of length at most n
SeqsUpTo(S, n) == UNION {[1..k -> S] : k \in 0..n}


(***************************************************************************)
(* Tool identifiers: the constant tables of the three modules, and the     *)
(* order in which each registrar calls server.tool.                        *)
(***************************************************************************)
CORE_TOOLS ==
  [list_project_teams |-> "core_list_project_teams",
   list_projects |-> "core_list_projects"]

WORK_TOOLS ==
  [list_team_iterations |-> "work_list_team_iterations",
   create_iterations |-> "work_create_iterations",
   assign_iterations |-> "work_assign_iterations"]

REPO_TOOLS ==
  [list_repos_by_project |-> "repo_list_repos_by_project",
   list_pull_requests_by_repo |-> "repo_list_pull_requests_by_repo",
   list_pull_requests_by_project |-> "repo_list_pull_requests_by_project",
   list_branches_by_repo |-> "repo_list_branches_by_repo",
   list_my_branches_by_repo |-> "repo_list_my_branches_by_repo",
   list_pull_request_threads |-> "repo_list_pull_request_threads",
   list_pull_request_thread_comments |-> "repo_list_pull_request_thread_comments",
   get_repo_by_name_or_id |-> "repo_get_repo_by_name_or_id",
   get_branch_by_name |-> "repo_get_branch_by_name",
   get_pull_request_by_id |-> "repo_get_pull_request_by_id",
   create_pull_request |-> "repo_create_pull_request",
   update_pull_request_status |-> "repo_update_pull_request_status",
   reply_to_comment |-> "repo_reply_to_comment",
   resolve_comment |-> "repo_resolve_comment"]

\* configureCoreTools: its server.tool calls, in order
CoreRegistrations == <<CORE_TOOLS.list_project_teams, CORE_TOOLS.list_projects>>

\* configureWorkTools: its server.tool calls, in order
WorkRegistrations ==
  <<WORK_TOOLS.list_team_iterations, WORK_TOOLS.create_iterations,
    WORK_TOOLS.assign_iterations>>

\* configureRepoTools: its server.tool calls, in order
RepoRegistrations ==
  <<REPO_TOOLS.create_pull_request, REPO_TOOLS.update_pull_request_status,
    REPO_TOOLS.list_repos_by_project, REPO_TOOLS.list_pull_requests_by_repo,
    REPO_TOOLS.list_pull_requests_by_project, REPO_TOOLS.list_pull_request_threads,
    REPO_TOOLS.list_pull_request_thread_comments, REPO_TOOLS.list_branches_by_repo,
    REPO_TOOLS.list_my_branches_by_repo, REPO_TOOLS.get_repo_by_name_or_id,
    REPO_TOOLS.get_branch_by_name, REPO_TOOLS.get_pull_request_by_id,
    REPO_TOOLS.reply_to_comment, REPO_TOOLS.resolve_comment>>

\* the six registrars whose modules are not at hand (builds, workitems,
\* releases, wiki, testplans, search) register one tool each here, named by
\* the group prefix
OTHER_GROUPS == <<"build", "wit", "release", "wiki", "testplan", "search">>
OtherGroupTools(g) == <<g \o "_tool">>

Range(s) == {s[k] : k \in 1..Len(s)}
Values(r) == {r[k] : k \in DOMAIN r}
CoreIds == Values(CORE_TOOLS)
WorkIds == Values(WORK_TOOLS)
RepoIds == Values(REPO_TOOLS)
\* the tools whose handlers are modelled
HandledTools == CoreIds \cup WorkIds \cup RepoIds

(***************************************************************************)
(* Input schemas (zod).                                                    *)
(***************************************************************************)
ZType(type) ==
  [type |-> type, required |-> TRUE, def |-> Undef, enum |-> {}, elem |-> <<>>]
ZString == ZType("string")
ZNumber == ZType("number")
ZBoolean == ZType("boolean")
ZEnum(values) == [ZType("enum") EXCEPT !.enum = values]
ZArrayOfObject(fields) == [ZType("array") EXCEPT !.elem = fields]
Optional(z) == [z EXCEPT !.required = FALSE]
Default(z, d) == [z EXCEPT !.required = FALSE, !.def = d]

CreateIterationItemSchema ==
  [iterationName |-> ZString, startDate |-> Optional(ZString),
   finishDate |-> Optional(ZString)]

AssignIterationItemSchema == [identifier |-> ZString, path |-> ZString]

Schema(tool) ==
  CASE tool = "core_list_project_teams" ->
         [project |-> ZString, mine |-> Optional(ZBoolean),
          top |-> Optional(ZNumber), skip |-> Optional(ZNumber)]
    [] tool = "core_list_projects" ->
         [stateFilter |->
            Default(ZEnum({"all", "wellFormed", "createPending", "deleted"}),
                    Str("wellFormed")),
          top |-> Optional(ZNumber), skip |-> Optional(ZNumber),
          continuationToken |-> Optional(ZNumber)]
    [] tool = "work_list_team_iterations" ->
         [project |-> ZString, team |-> ZString,
          timeframe |-> Optional(ZEnum({"current"}))]
    [] tool = "work_create_iterations" ->
         [project |-> ZString,
          iterations |-> ZArrayOfObject(CreateIterationItemSchema)]
    [] tool = "work_assign_iterations" ->
         [project |-> ZString, team |-> ZString,
          iterations |-> ZArrayOfObject(AssignIterationItemSchema)]
    [] tool = "repo_create_pull_request" ->
         [repositoryId |-> ZString, sourceRefName |-> ZString,
          targetRefName |-> ZString, title |-> ZString,
          description |-> Optional(ZString),
          isDraft |-> Default(ZBoolean, Bool(FALSE))]
    [] tool = "repo_update_pull_request_status" ->
         [repositoryId |-> ZString, pullRequestId |-> ZNumber,
          status |-> ZEnum({"active", "abandoned"})]
    [] tool = "repo_list_repos_by_project" -> [project |-> ZString]
    [] tool = "repo_list_pull_requests_by_repo" ->
         [repositoryId |-> ZString,
          created_by_me |-> Default(ZBoolean, Bool(FALSE)),
          i_am_reviewer |-> Default(ZBoolean, Bool(FALSE))]
    [] tool = "repo_list_pull_requests_by_project" ->
         [project |-> ZString,
          created_by_me |-> Default(ZBoolean, Bool(FALSE)),
          i_am_reviewer |-> Default(ZBoolean, Bool(FALSE))]
    [] tool = "repo_list_pull_request_threads" ->
         [repositoryId |-> ZString, pullRequestId |-> ZNumber,
          project |-> Optional(ZString), iteration |-> Optional(ZNumber),
          baseIteration |-> Optional(ZNumber)]
    [] tool = "repo_list_pull_request_thread_comments" ->
         [repositoryId |-> ZString, pullRequestId |-> ZNumber,
          threadId |-> ZNumber, project |-> Optional(ZString)]
    [] tool = "repo_list_branches_by_repo" ->
         [repositoryId |-> ZString, top |-> Default(ZNumber, Num(100))]
    [] tool = "repo_list_my_branches_by_repo" -> [repositoryId |-> ZString]
    [] tool = "repo_get_repo_by_name_or_id" ->
         [project |-> ZString, repositoryNameOrId |-> ZString]
    [] tool = "repo_get_branch_by_name" ->
         [repositoryId |-> ZString, branchName |-> ZString]
    [] tool = "repo_get_pull_request_by_id" ->
         [repositoryId |-> ZString, pullRequestId |-> ZNumber]
    [] tool = "repo_reply_to_comment" ->
         [repositoryId |-> ZString, pullRequestId |-> ZNumber,
          threadId |-> ZNumber, content |-> ZString,
          project |-> Optional(ZString)]
    [] tool = "repo_resolve_comment" ->
         [repositoryId |-> ZString, pullRequestId |-> ZNumber,
          threadId |-> ZNumber]

\* zod's check of one value that is not an array
AcceptsPrimitive(z, val) ==
  IF val.t = "undefined" THEN ~z.required
  ELSE CASE z.type = "string" -> val.t = "string"
         [] z.type = "number" -> val.t = "number"
         [] z.type = "boolean" -> val.t = "boolean"
         [] z.type = "enum" -> val.t = "string" /\ val.v \in z.enum
         [] OTHER -> FALSE

\* zod's check of one field
Accepts(z, val) ==
  IF z.type = "array"
  THEN /\ val.t = "array"
       /\ \A k \in 1..Len(val.v) :
            /\ val.v[k].t = "object"
            /\ \A f \in DOMAIN z.elem : AcceptsPrimitive(z.elem[f], val.v[k].v[f])
  ELSE AcceptsPrimitive(z, val)

\* the raw arguments satisfy the tool's declared schema
SchemaAccepts(tool, raw) ==
  \A f \in DOMAIN Schema(tool) : Accepts(Schema(tool)[f], raw[f])

\* the parsed arguments the handler receives: defaults filled in
Parse(tool, raw) ==
  [f \in DOMAIN Schema(tool) |->
     IF raw[f].t = "undefined" THEN Schema(tool)[f].def ELSE raw[f]]

(***************************************************************************)
(* What the client submits: for every tool a few well-formed argument      *)
(* sets and some that violate the schema.  A field that is left out is     *)
(* Undef.  Names with a path structure (refs, branch names) are sequences  *)
(* of their segments: "refs/heads/main" is <<"refs", "heads", "main">>.    *)
(***************************************************************************)
CreateItems ==
  {Obj([iterationName |-> Str("Sprint 1"), startDate |-> Undef,
        finishDate |-> Undef]),
   Obj([iterationName |-> Str("Sprint 2"),
        startDate |-> Str("2024-01-01T00:00:00Z"), finishDate |-> Undef])}

AssignItems ==
  {Obj([identifier |-> Str("i1"), path |-> Str("P/Sprint 1")]),
   Obj([identifier |-> Str("i2"), path |-> Str("P/Sprint 2")])}

\* an array item that misses its required name
BadItem == Obj([iterationName |-> Undef, startDate |-> Undef,
                finishDate |-> Undef, identifier |-> Undef, path |-> Undef])

TopValues == {Undef, Num(-1), Num(0), Num(1), Num(2), Num(10)}
FlagValues == {Undef, Bool(TRUE)}

RawArgs(tool) ==
  CASE tool = "core_list_project_teams" ->
         {[project |-> p, mine |-> Undef, top |-> Undef, skip |-> Undef] :
            p \in {Str("P"), Undef}}
    [] tool = "core_list_projects" ->
         {[stateFilter |-> f, top |-> Undef, skip |-> Undef,
           continuationToken |-> Undef] : f \in {Undef, Str("all"), Str("bogus")}}
    [] tool = "work_list_team_iterations" ->
         {[project |-> Str("P"), team |-> t, timeframe |-> Undef] :
            t \in {Str("T"), Num(7)}}
    [] tool = "work_create_iterations" ->
         {[project |-> Str("P"), iterations |-> Arr(items)] :
            items \in SeqsUpTo(CreateItems, MaxItems) \cup {<<BadItem>>}}
    [] tool = "work_assign_iterations" ->
         {[project |-> Str("P"), team |-> Str("T"), iterations |-> Arr(items)] :
            items \in SeqsUpTo(AssignItems, MaxItems) \cup {<<BadItem>>}}
    [] tool = "repo_create_pull_request" ->
         {[repositoryId |-> Str("R"), sourceRefName |-> Str("refs/heads/dev"),
           targetRefName |-> Str("refs/heads/main"), title |-> t,
           description |-> Undef, isDraft |-> Undef] : t \in {Str("PR"), Undef}}
    [] tool = "repo_update_pull_request_status" ->
         {[repositoryId |-> Str("R"), pullRequestId |-> Num(1), status |-> st] :
            st \in {Str("active"), Str("abandoned"), Str("completed")}}
    [] tool = "repo_list_repos_by_project" ->
         {[project |-> p] : p \in {Str("P"), Undef}}
    [] tool = "repo_list_pull_requests_by_repo" ->
         {[repositoryId |-> Str("R"), created_by_me |-> c, i_am_reviewer |-> r] :
            c \in FlagValues, r \in FlagValues}
         \cup {[repositoryId |-> Str("R"), created_by_me |-> Str("yes"),
                i_am_reviewer |-> Undef]}
    [] tool = "repo_list_pull_requests_by_project" ->
         {[project |-> Str("P"), created_by_me |-> c, i_am_reviewer |-> r] :
            c \in FlagValues, r \in FlagValues}
         \cup {[project |-> Undef, created_by_me |-> Bool(TRUE),
                i_am_reviewer |-> Undef]}
    [] tool = "repo_list_pull_request_threads" ->
         {[repositoryId |-> Str("R"), pullRequestId |-> n, project |-> Undef,
           iteration |-> Undef, baseIteration |-> Undef] : n \in {Num(1), Str("1")}}
    [] tool = "repo_list_pull_request_thread_comments" ->
         {[repositoryId |-> Str("R"), pullRequestId |-> Num(1), threadId |-> n,
           project |-> Undef] : n \in {Num(5), Undef}}
    [] tool = "repo_list_branches_by_repo" ->
         {[repositoryId |-> Str("R"), top |-> n] : n \in TopValues}
         \cup {[repositoryId |-> Str("R"), top |-> Str("all")]}
    [] tool = "repo_list_my_branches_by_repo" ->
         {[repositoryId |-> r] : r \in {Str("R"), Undef}}
    [] tool = "repo_get_repo_by_name_or_id" ->
         {[project |-> Str("P"), repositoryNameOrId |-> n] :
            n \in {Str("repo1"), Str("id1"), Str("nope"), Undef}}
    [] tool = "repo_get_branch_by_name" ->
         {[repositoryId |-> Str("R"), branchName |-> b] :
            b \in {Str(<<"main">>), Str(<<"gone">>), Undef}}
    [] tool = "repo_get_pull_request_by_id" ->
         {[repositoryId |-> Str("R"), pullRequestId |-> n] : n \in {Num(1), Undef}}
    [] tool = "repo_reply_to_comment" ->
         {[repositoryId |-> Str("R"), pullRequestId |-> Num(1), threadId |-> Num(404),
           content |-> c, project |-> Undef] : c \in {Str("thanks"), Undef}}
    [] tool = "repo_resolve_comment" ->
         {[repositoryId |-> Str("R"), pullRequestId |-> Num(1), threadId |-> n] :
            n \in {Num(5), Undef}}

(***************************************************************************)
(* What the remote service and the identity provider answer.               *)
(***************************************************************************)
\* a thrown Error object, and a thrown value that is no Error
Err(message) == [t |-> "error", message |-> message]
Throwables == {Err(Str("remote failure")), Str("thrown string")}
TokenFailure == Err(Str("no credential available"))

Team1 == Obj([id |-> Str("t1"), name |-> Str("Team 1")])
Project1 == Obj([id |-> Str("p1"), name |-> Str("P")])
Iteration1 == Obj([id |-> Str("i1"), name |-> Str("Sprint 1")])
Thread1 == Obj([id |-> Num(5), status |-> Num(1)])
Comment1 == Obj([id |-> Num(1), content |-> Str("thanks")])

Repo1 ==
  Obj([id |-> Str("id1"), name |-> Str("repo1"), isDisabled |-> Bool(FALSE),
       isFork |-> Bool(FALSE), isInMaintenance |-> Bool(FALSE),
       webUrl |-> Str("https://dev.azure.com/org/P/_git/repo1"),
       size |-> Num(10), defaultBranch |-> Str("refs/heads/main")])

PullRequest1 ==
  Obj([pullRequestId |-> Num(1), codeReviewId |-> Num(1), status |-> Num(1),
       createdBy |-> Obj([displayName |-> Str("U"), uniqueName |-> Str("u@x"),
                          id |-> Str("user1")]),
       creationDate |-> Str("2024-01-01"), title |-> Str("PR"),
       isDraft |-> Bool(FALSE), repository |-> Repo1,
       description |-> Str("text")])

\* a ref of the repository; one ref carries no name
Ref(name) == Obj([name |-> name, objectId |-> Str("0000")])
Refs ==
  {Ref(Str(<<"refs", "heads", "main">>)), Ref(Str(<<"refs", "tags", "v1">>)),
   Ref(Str(<<"refs", "heads", "dev">>)), Ref(Undef)}

ListOf(item) == {Undef, Null, Arr(<<>>), Arr(<<item>>)}
RefLists == {Undef, Null} \cup {Arr(s) : s \in SeqsUpTo(Refs, MaxRefs)}
SomeRefLists ==
  {Undef, Null, Arr(<<>>),
   Arr(<<Ref(Undef), Ref(Str(<<"refs", "tags", "v1">>)),
         Ref(Str(<<"refs", "heads", "main">>))>>)}

\* the user id the identity lookup answers
UserId == Str("user1")

(***************************************************************************)
(* Credentials and connections (getAzureDevOpsClient).                     *)
(***************************************************************************)
PersonalAccessTokenHandler(pat) == [kind |-> "pat", secret |-> pat]
\* a handler built from a token kept from before
CachedBearerHandler(token) == [kind |-> "bearer", token |-> 0]

BearerHandler(token) == [kind |-> "bearer", token |-> token]
WebApi(url, authHandler) == [url |-> url, auth |-> authHandler]
NoConnection == [url |-> Undef, auth |-> [kind |-> "none"]]

\* new WebApi(url, ...): with a string it returns the connection; what it
\* does with a url that is no string is the library's affair: it returns or
\* it throws
ConstructOutcomes(url) == IF url.t = "string" THEN {TRUE} ELSE BOOLEAN
InvalidUrl == [t |-> "error", message |-> [t |-> "string", v |-> "invalid url"]]

\* an entry of the log of constructor calls
Construction(c, by, ok) == [conn |-> c, by |-> by, ok |-> ok]

\* who called the constructor: the n-th handler invocation, or testWorkItems
ByHandler(n) == <<"handler", n>>
ByTestWorkItems == <<"testWorkItems", 0>>

\* the token the identity provider issues for its n-th request
AccessToken(n) == [token |-> n]

(***************************************************************************)
(* Envelopes and other ends of a handler invocation.                       *)
(***************************************************************************)
NoOutcome == [kind |-> "none"]
ValidationFailure == [kind |-> "invalid"]
Thrown(e) == [kind |-> "thrown", error |-> e]
Envelope(text, isError) ==
  [kind |-> "envelope", content |-> <<[type |-> "text", text |-> text]>>,
   isError |-> isError]

\* a template literal: the concatenation of its parts
TemplateOf(parts) == [t |-> "string", parts |-> parts]

(***************************************************************************)
(* The handlers, tool by tool.                                             *)
(***************************************************************************)
\* the work module calls its own getAzureDevOpsClient, the others import
\* the one of index
UsesWorkClient(tool) == tool \in WorkIds

\* handlers of which only the core module's catch
CatchesCoreOnly(tool) == tool \in CoreIds

\* the handler body is wrapped in try { } catch
Catches(tool) == tool \in CoreIds \cup WorkIds

\* the text the catch block puts before the message
ErrorNoun(tool) ==
  CASE tool = "core_list_project_teams" -> "Error fetching project teams"
    [] tool = "core_list_projects" -> "Error fetching projects"
    [] tool = "work_list_team_iterations" -> "Error fetching team iterations"
    [] tool = "work_create_iterations" -> "Error creating iterations"
    [] tool = "work_assign_iterations" -> "Error assigning iterations"
    [] OTHER -> ""

\* error instanceof Error ? error.message : 'Unknown error occurred'
ErrorMessage(e) ==
  IF e.t = "error" THEN e.message ELSE Str("Unknown error occurred")

ErrorEnvelope(tool, e) ==
  Envelope(TemplateOf(<<Str(ErrorNoun(tool) \o ": "), ErrorMessage(e)>>), TRUE)

\* where an error raised in the handler body ends
OnError(tool, e) == IF Catches(tool) THEN ErrorEnvelope(tool, e) ELSE Thrown(e)

\* the text returned when the remote result is falsy
NotFoundText(tool) ==
  CASE tool = "core_list_project_teams" -> "No teams found"
    [] tool = "core_list_projects" -> "No projects found"
    [] tool = "work_list_team_iterations" -> "No iterations found"
    [] tool = "work_create_iterations" -> "No iterations were created"
    [] tool = "work_assign_iterations" -> "No iterations were assigned to the team"
    [] OTHER -> ""

\* the client accessor the handler awaits
ApiOf(tool) ==
  CASE tool \in CoreIds -> "getCoreApi"
    [] tool = "work_create_iterations" -> "getWorkItemTrackingApi"
    [] tool \in WorkIds -> "getWorkApi"
    [] OTHER -> "getGitApi"

\* the remote operation the handler calls
CallName(tool) ==
  CASE tool = "core_list_project_teams" -> "getTeams"
    [] tool = "core_list_projects" -> "getProjects"
    [] tool = "work_list_team_iterations" -> "getTeamIterations"
    [] tool = "work_create_iterations" -> "createOrUpdateClassificationNode"
    [] tool = "work_assign_iterations" -> "postTeamIteration"
    [] tool = "repo_create_pull_request" -> "createPullRequest"
    [] tool = "repo_update_pull_request_status" -> "updatePullRequest"
    [] tool = "repo_list_repos_by_project" -> "getRepositories"
    [] tool = "repo_list_pull_requests_by_repo" -> "getPullRequests"
    [] tool = "repo_list_pull_requests_by_project" -> "getPullRequestsByProject"
    [] tool = "repo_list_pull_request_threads" -> "getThreads"
    [] tool = "repo_list_pull_request_thread_comments" -> "getComments"
    [] tool = "repo_list_branches_by_repo" -> "getRefs"
    [] tool = "repo_list_my_branches_by_repo" -> "getRefs"
    [] tool = "repo_get_repo_by_name_or_id" -> "getRepositories"
    [] tool = "repo_get_branch_by_name" -> "getRefs"
    [] tool = "repo_get_pull_request_by_id" -> "getPullRequest"
    [] tool = "repo_reply_to_comment" -> "createComment"
    [] tool = "repo_resolve_comment" -> "updateThread"

IterationTools == {"work_create_iterations", "work_assign_iterations"}
PullRequestListTools ==
  {"repo_list_pull_requests_by_repo", "repo_list_pull_requests_by_project"}

\* startDate ? new Date(startDate) : undefined
DateOf(x) == IF Truthy(x) THEN [t |-> "date", v |-> x.v] ELSE Undef

\* the classification node create_iterations sends for one array item
CreateRequest(item, project) ==
  Obj([name |-> item.v.iterationName,
       attributes |-> Obj([startDate |-> DateOf(item.v.startDate),
                           finishDate |-> DateOf(item.v.finishDate)]),
       project |-> project, structureGroup |-> Str("Iterations")])

\* the team iteration assign_iterations posts for one array item
AssignRequest(item, project, team) ==
  Obj([path |-> item.v.path, id |-> item.v.identifier,
       teamContext |-> Obj([project |-> project, team |-> team])])

\* the request of the k-th loop round
ItemRequest(tool, args, k) ==
  IF tool = "work_create_iterations"
  THEN CreateRequest(args.iterations.v[k], args.project)
  ELSE AssignRequest(args.iterations.v[k], args.project, args.team)

\* a loop that steps over every other item
SkipRound(k) == k + 2

\* the loop: the round after round k
NextRound(k) == k + 1

\* results.push(x)
Push(results, x) == Append(results, x)

\* the search criteria before the user filters are set
BaseCriteria(tool, args) ==
  IF tool = "repo_list_pull_requests_by_repo"
  THEN [status |-> Num(1), repositoryId |-> args.repositoryId,
        creatorId |-> Undef, reviewerId |-> Undef]
  ELSE [status |-> Num(1), creatorId |-> Undef, reviewerId |-> Undef]

\* a handler that never asks who the user is
NeverLookup(args) == FALSE

\* if (created_by_me || i_am_reviewer)
NeedsLookup(args) == Truthy(args.created_by_me) \/ Truthy(args.i_am_reviewer)

\* criteria that take the user id in the field of the other flag
WithUserSwapped(criteria, args, userId) ==
  [criteria EXCEPT
     !.creatorId = IF Truthy(args.i_am_reviewer) THEN userId ELSE @,
     !.reviewerId = IF Truthy(args.created_by_me) THEN userId ELSE @]

\* the criteria after the identity lookup answered userId
WithUser(criteria, args, userId) ==
  [criteria EXCEPT
     !.creatorId = IF Truthy(args.created_by_me) THEN userId ELSE @,
     !.reviewerId = IF Truthy(args.i_am_reviewer) THEN userId ELSE @]

\* the names the handler binds from its argument object
HandlerParams(tool) ==
  IF tool = "repo_update_pull_request_status"
  THEN {"repositoryId", "pullRequestId"}
  ELSE DOMAIN Schema(tool)

\* status === "active" ? 3 : 2
StatusValue(status) == IF status = Str("active") THEN Num(3) ELSE Num(2)

\* reading a name that neither the handler nor the module binds
ReferenceError(name) == Err(Str(name \o " is not defined"))

\* the request of a handler that issues one remote call
Request(tool, args) ==
  CASE tool = "repo_update_pull_request_status" ->
         Obj([pullRequest |-> Obj([status |-> StatusValue(args.status)]),
              repositoryId |-> args.repositoryId,
              pullRequestId |-> args.pullRequestId])
    [] tool = "repo_resolve_comment" ->
         Obj([thread |-> Obj([status |-> Num(2)]),
              repositoryId |-> args.repositoryId,
              pullRequestId |-> args.pullRequestId, threadId |-> args.threadId])
    [] OTHER -> Obj(args)

\* what the remote service may return to the tool's call
Responses(tool, request) ==
  CASE tool = "core_list_project_teams" -> ListOf(Team1)
    [] tool = "core_list_projects" -> ListOf(Project1)
    [] tool = "work_list_team_iterations" -> ListOf(Iteration1)
    [] tool \in IterationTools -> {Undef, Null, Obj([made |-> request])}
    [] tool \in {"repo_list_repos_by_project", "repo_get_repo_by_name_or_id"} ->
         ListOf(Repo1)
    [] tool \in PullRequestListTools -> ListOf(PullRequest1)
    [] tool = "repo_list_pull_request_threads" -> ListOf(Thread1)
    [] tool = "repo_list_pull_request_thread_comments" -> ListOf(Comment1)
    [] tool = "repo_list_branches_by_repo" -> RefLists
    [] tool \in {"repo_list_my_branches_by_repo", "repo_get_branch_by_name"} ->
         SomeRefLists
    [] tool = "repo_reply_to_comment" -> {Undef, Null, Comment1}
    [] tool = "repo_resolve_comment" -> {Undef, Null, Thread1}
    [] OTHER -> {Undef, Null, PullRequest1}

(***************************************************************************)
(* Shaping the remote result.                                              *)
(***************************************************************************)
\* Array.prototype.find over the elements that satisfy the predicate
FirstOf(hits) == IF hits = <<>> THEN Undef ELSE Head(hits)

\* x?.field
OptionalGet(x, field) == IF Nullish(x) THEN Undef ELSE x.v[field]

repoFilter(repo) ==
  Obj([id |-> repo.v.id, name |-> repo.v.name, isDisabled |-> repo.v.isDisabled,
       isFork |-> repo.v.isFork, isInMaintenance |-> repo.v.isInMaintenance,
       webUrl |-> repo.v.webUrl, size |-> repo.v.size])

pullRequestFilterByRepo(pr) ==
  Obj([pullRequestId |-> pr.v.pullRequestId, codeReviewId |-> pr.v.codeReviewId,
       status |-> pr.v.status,
       createdBy |-> Obj([displayName |-> OptionalGet(pr.v.createdBy, "displayName"),
                          uniqueName |-> OptionalGet(pr.v.createdBy, "uniqueName")]),
       creationDate |-> pr.v.creationDate, title |-> pr.v.title,
       isDraft |-> pr.v.isDraft])

pullRequestFilterByProject(pr) ==
  Obj([pullRequestId |-> pr.v.pullRequestId, codeReviewId |-> pr.v.codeReviewId,
       repository |-> OptionalGet(pr.v.repository, "name"),
       status |-> pr.v.status,
       createdBy |-> Obj([displayName |-> OptionalGet(pr.v.createdBy, "displayName"),
                          uniqueName |-> OptionalGet(pr.v.createdBy, "uniqueName")]),
       creationDate |-> pr.v.creationDate, title |-> pr.v.title,
       isDraft |-> pr.v.isDraft])

\* repositories?.map((repo) => ({ ... }))
filteredRepositories(repositories) ==
  IF Nullish(repositories) THEN Undef
  ELSE Arr([k \in 1..Len(repositories.v) |-> repoFilter(repositories.v[k])])

\* pullRequests?.map((pr) => ({ ... })), in either pull-request listing
filteredPullRequests(tool, pullRequests) ==
  IF Nullish(pullRequests) THEN Undef
  ELSE Arr([k \in 1..Len(pullRequests.v) |->
              IF tool = REPO_TOOLS.list_pull_requests_by_repo
              THEN pullRequestFilterByRepo(pullRequests.v[k])
              ELSE pullRequestFilterByProject(pullRequests.v[k])])

\* a find that compares the name only
findRepositoryByName(repositories, nameOrId) ==
  IF Nullish(repositories) THEN Undef
  ELSE FirstOf(SelectSeq(repositories.v, LAMBDA repo : repo.v.name = nameOrId))

\* repositories?.find((repo) => repo.name === nameOrId || repo.id === nameOrId)
findRepository(repositories, nameOrId) ==
  IF Nullish(repositories) THEN Undef
  ELSE FirstOf(SelectSeq(repositories.v,
                         LAMBDA repo : repo.v.name = nameOrId \/ repo.v.id = nameOrId))

\* the segments of "refs/heads/"
HeadsPrefix == <<"refs", "heads">>

\* String.prototype.startsWith, on segments
StartsWith(s, p) == Len(s) >= Len(p) /\ SubSeq(s, 1, Len(p)) = p

\* String.prototype.replace(p, r): the first occurrence of p, wherever it is
ReplaceFirst(s, p, r) ==
  LET at == {i \in 1..(Len(s) - Len(p) + 1) : SubSeq(s, i, i + Len(p) - 1) = p}
  IN IF at = {} THEN s
     ELSE LET i == CHOOSE j \in at : \A h \in at : j <= h
          IN SubSeq(s, 1, i - 1) \o r \o SubSeq(s, i + Len(p), Len(s))

\* branches.flatMap((branch) => (branch.name ? [branch.name] : []))
BranchNames(refs) ==
  LET named == SelectSeq(refs, LAMBDA ref : Truthy(ref.v.name))
  IN [k \in 1..Len(named) |-> named[k].v.name]

branchesFilterOutIrrelevantProperties(branches, top) ==
  IF Nullish(branches) THEN Undef
  ELSE LET names == BranchNames(branches.v)
           heads == SelectSeq(names, LAMBDA n : StartsWith(n.v, HeadsPrefix))
           short == [k \in 1..Len(heads) |->
                       Str(ReplaceFirst(heads[k].v, HeadsPrefix, <<>>))]
       IN Arr(Slice0(short, top))

\* branches?.find((branch) => branch.name === `refs/heads/${branchName}`)
findBranch(branches, branchName) ==
  IF Nullish(branches) THEN Undef
  ELSE FirstOf(SelectSeq(branches.v,
                         LAMBDA b : b.v.name = Str(HeadsPrefix \o branchName.v)))

\* how a handler that issues one remote call ends once the call returned
Shape(tool, args, resp) ==
  CASE tool \in {"core_list_project_teams", "core_list_projects",
                 "work_list_team_iterations"} ->
         IF ~Truthy(resp) THEN Envelope(Str(NotFoundText(tool)), TRUE)
         ELSE Envelope(Stringify(resp), FALSE)
    [] tool = "repo_list_repos_by_project" ->
         Envelope(Stringify(filteredRepositories(resp)), FALSE)
    [] tool \in PullRequestListTools ->
         Envelope(Stringify(filteredPullRequests(tool, resp)), FALSE)
    [] tool = "repo_list_branches_by_repo" ->
         Envelope(Stringify(branchesFilterOutIrrelevantProperties(resp, args.top.v)),
                  FALSE)
    [] tool = "repo_get_repo_by_name_or_id" ->
         LET repository == findRepository(resp, args.repositoryNameOrId)
         IN IF ~Truthy(repository)
            THEN Thrown(Err(TemplateOf(<<Str("Repository "), args.repositoryNameOrId,
                                         Str(" not found in project "), args.project>>)))
            ELSE Envelope(Stringify(repository), FALSE)
    [] tool = "repo_get_branch_by_name" ->
         LET branch == findBranch(resp, args.branchName)
         IN IF ~Truthy(branch)
            THEN Envelope(TemplateOf(<<Str("Branch "), args.branchName,
                                       Str(" not found in repository "),
                                       args.repositoryId>>), FALSE)
            ELSE Envelope(Stringify(branch), FALSE)
    [] OTHER -> Envelope(Stringify(resp), FALSE)

\* a loop end that does not test results.length
ShapeResultsUnchecked(tool, results) == Envelope(Stringify(Arr(results)), FALSE)

\* how the loop of create_iterations and assign_iterations ends
ShapeResults(tool, results) ==
  IF Len(results) = 0 THEN Envelope(Str(NotFoundText(tool)), TRUE)
  ELSE Envelope(Stringify(Arr(results)), FALSE)

(***************************************************************************)
(* State.                                                                  *)
(***************************************************************************)
VARIABLES
  argv,           \* process.argv.slice(2)
  index,          \* index.ts: orgName, adoPat, debug, orgUrl
  workCfg,        \* the work module's own orgUrl and adoPat
  repoCfg,        \* the repo module's own adoPat and orgUrl
  mainpc,         \* where main() stands
  registry,       \* the identifiers registered with server.tool, in order
  slots,          \* the invocations the client may have in flight at once
  menu,           \* the tools the client invokes
  inv,            \* per slot: the handler invocation in it
  invCount,       \* invocations dispatched so far
  clientCalls,    \* calls of getAzureDevOpsClient so far
  tokenRequests,  \* token requests sent to the identity provider so far
  tokenFailures,  \* token requests the identity provider refused
  connLog         \* every connection constructed, in order

vars ==
  <<argv, index, workCfg, repoCfg, mainpc, registry, slots, menu, inv, invCount,
    clientCalls, tokenRequests, tokenFailures, connLog>>

config == <<argv, index, repoCfg, slots, menu>>
counters == <<clientCalls, tokenRequests, tokenFailures, connLog>>

\* the command lines tried
Argvs ==
  {<<>>, <<"org">>, <<"org", "pat">>, <<"org", "pat", "--debug">>,
   <<"org", "--debug">>, <<"org", "", "--debug">>}

\* args[k] of JavaScript (k counted from 0)
ArgAt(args, k) == IF k + 1 <= Len(args) THEN Str(args[k + 1]) ELSE Undef

\* the module-level constants of index.ts
IndexOf(args) ==
  [orgName |-> ArgAt(args, 0), adoPat |-> ArgAt(args, 1),
   debug |-> "--debug" \in Range(args),
   orgUrl |-> IF Len(args) = 0 THEN Undef
              ELSE Str("https://dev.azure.com/" \o args[1])]

Ev(op, name, arg) == [op |-> op, name |-> name, arg |-> arg]

IdleSlot ==
  [pc |-> "idle", tool |-> "", raw |-> <<>>, args |-> <<>>,
   id |-> 0, conn |-> NoConnection, cid |-> 0, req |-> 0, results |-> <<>>, k |-> 0,
   criteria |-> <<>>, resp |-> Undef, out |-> NoOutcome, log |-> <<>>]

InitWith(S, M) ==
  /\ argv \in Argvs
  /\ index = IndexOf(argv)
  /\ workCfg = [orgUrl |-> Str(""), adoPat |-> Str("")]
  /\ repoCfg = [adoPat |-> Str(""), orgUrl |-> Str("")]
  /\ mainpc = IF Len(argv) = 0 THEN "exit" ELSE "main"
  /\ registry = <<>>
  /\ slots = S
  /\ menu = M
  /\ inv = [i \in S |-> IdleSlot]
  /\ invCount = 0
  /\ clientCalls = 0
  /\ tokenRequests = 0
  /\ tokenFailures = 0
  /\ connLog = <<>>

\* the tools the client invokes under each menu
MenuTools(m) ==
  IF m = "all" THEN HandledTools
  ELSE {WORK_TOOLS.list_team_iterations, REPO_TOOLS.list_pull_requests_by_repo}

Init == InitWith({1}, "all")

(***************************************************************************)
(* Startup: main().                                                        *)
(***************************************************************************)
\* server.tool refuses an identifier that is registered already
HasDuplicates(ids) == \E a, b \in 1..Len(ids) : a # b /\ ids[a] = ids[b]

\* what main passes to configureAllTools after the server
MainToolArguments ==
  [tokenProvider |-> Undef, connectionProvider |-> Undef, adoPat |-> Undef,
   orgUrl |-> Undef]

\* configureWorkTools: the module keeps the pair it is given
configureWorkTools(adoPat, orgUrl) == [orgUrl |-> orgUrl, adoPat |-> adoPat]

\* a configureAllTools that leaves out the repo registrar
configureAllButRepoTools ==
  CoreRegistrations \o WorkRegistrations \o OtherGroupTools(OTHER_GROUPS[1])
    \o OtherGroupTools(OTHER_GROUPS[2]) \o OtherGroupTools(OTHER_GROUPS[3])
    \o OtherGroupTools(OTHER_GROUPS[4]) \o OtherGroupTools(OTHER_GROUPS[5])
    \o OtherGroupTools(OTHER_GROUPS[6])

\* the identifiers the registrars register, in the order of configureAllTools
configureAllTools ==
  CoreRegistrations \o WorkRegistrations \o OtherGroupTools(OTHER_GROUPS[1])
    \o RepoRegistrations
    \o OtherGroupTools(OTHER_GROUPS[2]) \o OtherGroupTools(OTHER_GROUPS[3])
    \o OtherGroupTools(OTHER_GROUPS[4]) \o OtherGroupTools(OTHER_GROUPS[5])
    \o OtherGroupTools(OTHER_GROUPS[6])

\* the step of main after the server object is made
AfterServerCreated == IF index.debug THEN "debug" ELSE "prompts"

\* main: new McpServer
MainStart ==
  /\ mainpc = "main"
  /\ mainpc' = AfterServerCreated
  /\ UNCHANGED <<config, workCfg, registry, inv, invCount, counters>>

\* main with --debug: await testWorkItems(), which builds a connection of
\* its own, asks for the team iterations and rethrows what fails
TestWorkItems ==
  /\ mainpc = "debug"
  /\ clientCalls' = clientCalls + 1
  /\ \E tokenOk \in BOOLEAN, remoteOk \in BOOLEAN :
       IF Truthy(index.adoPat)
       THEN /\ tokenOk
            /\ connLog' = Append(connLog,
                 Construction(WebApi(index.orgUrl, PersonalAccessTokenHandler(index.adoPat)),
                              ByTestWorkItems, TRUE))
            /\ UNCHANGED <<tokenRequests, tokenFailures>>
            /\ mainpc' = IF remoteOk THEN "prompts" ELSE "fatal"
       ELSE /\ tokenRequests' = tokenRequests + 1
            /\ IF tokenOk
               THEN /\ connLog' = Append(connLog,
                         Construction(WebApi(index.orgUrl,
                                        BearerHandler(AccessToken(tokenRequests + 1).token)),
                                      ByTestWorkItems, TRUE))
                    /\ UNCHANGED tokenFailures
                    /\ mainpc' = IF remoteOk THEN "prompts" ELSE "fatal"
               ELSE /\ remoteOk
                    /\ tokenFailures' = tokenFailures + 1
                    /\ UNCHANGED connLog
                    /\ mainpc' = "fatal"
  /\ UNCHANGED <<config, workCfg, registry, inv, invCount>>

\* main: configurePrompts(server)
ConfigurePrompts ==
  /\ mainpc = "prompts"
  /\ mainpc' = "tools"
  /\ UNCHANGED <<config, workCfg, registry, inv, invCount, counters>>

\* main: configureAllTools(server): every registrar runs, synchronously
ConfigureAllTools ==
  /\ mainpc = "tools"
  /\ workCfg' = configureWorkTools(MainToolArguments.adoPat, MainToolArguments.orgUrl)
  /\ IF HasDuplicates(registry \o configureAllTools)
     THEN mainpc' = "fatal" /\ UNCHANGED registry
     ELSE mainpc' = "connect" /\ registry' = registry \o configureAllTools
  /\ UNCHANGED <<config, inv, invCount, counters>>

\* main: await server.connect(transport): the server accepts invocations
Connect ==
  /\ mainpc = "connect"
  /\ mainpc' = "running"
  /\ UNCHANGED <<config, workCfg, registry, inv, invCount, counters>>

(***************************************************************************)
(* A handler invocation: the synchronous runs between its awaits.          *)
(***************************************************************************)
\* the handler returns or throws
Finish(s, out) == [s EXCEPT !.pc = "done", !.out = out]

\* an error is raised in the handler body
Raise(s, e) == Finish(s, OnError(s.tool, e))

\* the handler starts a remote call and awaits it
IssueCall(s, request) ==
  [s EXCEPT !.pc = "call",
            !.log = Append(@, Ev("call", CallName(s.tool), request))]

\* the handler starts getCurrentUserDetails and awaits it
IssueLookup(s) ==
  [s EXCEPT !.pc = "lookup",
            !.log = Append(@, Ev("call", "getCurrentUserDetails", Undef))]

\* the arguments of getPullRequests and getPullRequestsByProject
PullRequestsRequest(tool, args, criteria) ==
  IF tool = "repo_list_pull_requests_by_repo"
  THEN Obj([repositoryId |-> args.repositoryId, searchCriteria |-> Obj(criteria)])
  ELSE Obj([project |-> args.project, searchCriteria |-> Obj(criteria)])

\* the head of the for-of loop over the iterations array, before round s.k
Loop(s) ==
  IF s.k <= Len(s.args.iterations.v)
  THEN IssueCall(s, ItemRequest(s.tool, s.args, s.k))
  ELSE Finish(s, ShapeResults(s.tool, s.results))

\* the handler body from the line after `await connection.get...Api()` to
\* its next await
Body(s) ==
  CASE s.tool \in PullRequestListTools ->
         LET c == BaseCriteria(s.tool, s.args)
         IN IF NeedsLookup(s.args)
            THEN IssueLookup([s EXCEPT !.criteria = c])
            ELSE IssueCall([s EXCEPT !.criteria = c],
                           PullRequestsRequest(s.tool, s.args, c))
    [] s.tool \in IterationTools -> Loop([s EXCEPT !.results = <<>>, !.k = 1])
    [] s.tool = "repo_update_pull_request_status" ->
         IF "status" \in HandlerParams(s.tool)
         THEN IssueCall(s, Request(s.tool, s.args))
         ELSE Raise(s, ReferenceError("status"))
    [] OTHER -> IssueCall(s, Request(s.tool, s.args))

\* the identity lookup answered: set the filters, start the primary query
AfterLookup(s, userId) ==
  LET c == WithUser(s.criteria, s.args, userId)
      s1 == [s EXCEPT !.criteria = c,
                      !.log = Append(@, Ev("return", "getCurrentUserDetails", userId))]
  IN IssueCall(s1, PullRequestsRequest(s.tool, s.args, c))

\* the remote call answered resp
AfterCall(s, resp) ==
  LET s1 == [s EXCEPT !.resp = resp,
                      !.log = Append(@, Ev("return", CallName(s.tool), resp))]
  IN IF s.tool \in IterationTools
     THEN Loop([s1 EXCEPT !.results = IF Truthy(resp) THEN Push(@, resp) ELSE @,
                          !.k = NextRound(@)])
     ELSE Finish(s1, Shape(s.tool, s.args, resp))

\* an awaited call threw e
AfterThrow(s, name, e) == Raise([s EXCEPT !.log = Append(@, Ev("throw", name, e))], e)

\* a getAzureDevOpsClient that hands out the first connection the process
\* made, once there is one
ConstructedOnce(s, c, built) ==
  IF connLog # <<>>
  THEN [s EXCEPT !.pc = "client", !.conn = connLog[1].conn, !.cid = 1,
                 !.log = Append(@, Ev("construct", "WebApi", Undef))]
  ELSE [s EXCEPT !.pc = "client", !.conn = c, !.cid = 1,
                 !.log = Append(@, Ev("construct", "WebApi", Undef))]

\* getAzureDevOpsClient at `new azdev.WebApi(...)`: the connection is
\* returned to the handler, or the constructor's error reaches it
Constructed(s, c, built) ==
  IF built
  THEN [s EXCEPT !.pc = "client", !.conn = c, !.cid = Len(connLog) + 1,
                 !.log = Append(@, Ev("construct", "WebApi", Undef))]
  ELSE AfterThrow(s, "WebApi", InvalidUrl)

\* a getAzureDevOpsClient that stores a fallback for the secret it misses
ClientStoresFallback(tool, cfg) ==
  IF UsesWorkClient(tool) THEN [cfg EXCEPT !.adoPat = Str("")] ELSE cfg

\* the work module's orgUrl and adoPat after the tool's handler has called
\* getAzureDevOpsClient: neither handler nor client assigns them
ClientLeaves(tool, cfg) == cfg

\* the orgUrl and adoPat that the tool's getAzureDevOpsClient reads
ClientCfg(tool) ==
  IF UsesWorkClient(tool) THEN workCfg
  ELSE [orgUrl |-> index.orgUrl, adoPat |-> index.adoPat]

\* a Host Server that hands every argument set to the handler
HostSkipsValidation(tool, raw) == TRUE

\* the Host Server checks the arguments against the schema before the handler
HostValidates(tool, raw) == SchemaAccepts(tool, raw)

\* The client invokes a registered tool.  The Host Server validates the
\* arguments; the handler starts and calls getAzureDevOpsClient, which with a
\* secret builds the connection at once and otherwise asks for a token.
Dispatch(i, tool, raw) ==
  /\ mainpc = "running"
  /\ inv[i].pc = "idle"
  /\ invCount < MaxInvocations
  /\ tool \in Range(registry)
  /\ invCount' = invCount + 1
  /\ LET s == [IdleSlot EXCEPT !.tool = tool, !.raw = raw, !.id = invCount + 1]
         cfg == ClientCfg(tool)
     IN IF ~HostValidates(tool, raw)
        THEN /\ inv' = [inv EXCEPT ![i] = Finish(s, ValidationFailure)]
             /\ UNCHANGED <<counters, workCfg>>
        ELSE /\ clientCalls' = clientCalls + 1
             /\ workCfg' = ClientLeaves(tool, workCfg)
             /\ UNCHANGED tokenFailures
             /\ IF Truthy(cfg.adoPat)
                THEN LET c == WebApi(cfg.orgUrl, PersonalAccessTokenHandler(cfg.adoPat))
                         s1 == [s EXCEPT !.args = Parse(tool, raw)]
                     IN /\ \E built \in ConstructOutcomes(cfg.orgUrl) :
                             /\ inv' = [inv EXCEPT ![i] = Constructed(s1, c, built)]
                             /\ connLog' = Append(connLog, Construction(c, ByHandler(s.id), built))
                        /\ UNCHANGED tokenRequests
                ELSE /\ inv' = [inv EXCEPT ![i] =
                           [s EXCEPT !.args = Parse(tool, raw), !.pc = "token",
                                     !.req = tokenRequests + 1,
                                     !.log = Append(@, Ev("call", "getToken", Undef))]]
                     /\ tokenRequests' = tokenRequests + 1
                     /\ UNCHANGED connLog
  /\ UNCHANGED <<config, mainpc, registry>>

\* The identity provider answers the token request: getAzureDevOpsClient
\* builds the connection with the token, or the failure reaches the handler.
TokenResponse(i) ==
  /\ inv[i].pc = "token"
  /\ \E ok \in BOOLEAN :
       LET s == inv[i]
           cfg == ClientCfg(s.tool)
           c == WebApi(cfg.orgUrl, BearerHandler(AccessToken(s.req).token))
       IN IF ok
          THEN /\ \E built \in ConstructOutcomes(cfg.orgUrl) :
                    /\ inv' = [inv EXCEPT ![i] = Constructed(s, c, built)]
                    /\ connLog' = Append(connLog, Construction(c, ByHandler(s.id), built))
               /\ UNCHANGED tokenFailures
          ELSE /\ inv' = [inv EXCEPT ![i] = AfterThrow(s, "getToken", TokenFailure)]
               /\ tokenFailures' = tokenFailures + 1
               /\ UNCHANGED connLog
  /\ UNCHANGED <<config, workCfg, mainpc, registry, invCount, clientCalls,
                 tokenRequests>>

\* await getAzureDevOpsClient() resumes: the handler asks for the API client
ClientReady(i) ==
  /\ inv[i].pc = "client"
  /\ inv' = [inv EXCEPT ![i] =
       [@ EXCEPT !.pc = "api",
                 !.log = Append(@, Ev("call", ApiOf(inv[i].tool), Num(inv[i].cid)))]]
  /\ UNCHANGED <<config, workCfg, mainpc, registry, invCount, counters>>

\* await connection.get...Api() resumes or throws
ApiReady(i) ==
  /\ inv[i].pc = "api"
  /\ \/ inv' = [inv EXCEPT ![i] = Body(inv[i])]
     \/ \E e \in Throwables :
          inv' = [inv EXCEPT ![i] = AfterThrow(inv[i], ApiOf(inv[i].tool), e)]
  /\ UNCHANGED <<config, workCfg, mainpc, registry, invCount, counters>>

\* await getCurrentUserDetails(...) resumes or throws
LookupReturns(i) ==
  /\ inv[i].pc = "lookup"
  /\ \/ inv' = [inv EXCEPT ![i] = AfterLookup(inv[i], UserId)]
     \/ \E e \in Throwables :
          inv' = [inv EXCEPT ![i] = AfterThrow(inv[i], "getCurrentUserDetails", e)]
  /\ UNCHANGED <<config, workCfg, mainpc, registry, invCount, counters>>

\* the awaited remote call resumes with a result or throws
CallReturns(i) ==
  /\ inv[i].pc = "call"
  /\ LET s == inv[i]
         request == s.log[Len(s.log)].arg
     IN \/ \E resp \in Responses(s.tool, request) :
             inv' = [inv EXCEPT ![i] = AfterCall(s, resp)]
        \/ \E e \in Throwables :
             inv' = [inv EXCEPT ![i] = AfterThrow(s, CallName(s.tool), e)]
  /\ UNCHANGED <<config, workCfg, mainpc, registry, invCount, counters>>

\* the Host Server hands the outcome to the client; the slot is free again
Respond(i) ==
  /\ inv[i].pc = "done"
  /\ inv' = [inv EXCEPT ![i] = IdleSlot]
  /\ UNCHANGED <<config, workCfg, mainpc, registry, invCount, counters>>

Next ==
  \/ MainStart
  \/ TestWorkItems
  \/ ConfigurePrompts
  \/ ConfigureAllTools
  \/ Connect
  \/ \E i \in slots, tool \in MenuTools(menu) : \E raw \in RawArgs(tool) : Dispatch(i, tool, raw)
  \/ \E i \in slots : TokenResponse(i)
  \/ \E i \in slots : ClientReady(i)
  \/ \E i \in slots : ApiReady(i)
  \/ \E i \in slots : LookupReturns(i)
  \/ \E i \in slots : CallReturns(i)
  \/ \E i \in slots : Respond(i)

Spec == Init /\ [][Next]_vars

\* two invocations in flight at once, over two tools (one with the work
\* module's client, one with index.ts's), started without and with a secret
InitConc ==
  /\ InitWith({1, 2}, "concurrent")
  /\ argv \in {<<"org">>, <<"org", "pat", "--debug">>}
SpecConc == InitConc /\ [][Next]_vars

(***************************************************************************)
(* Reading an invocation's history.                                        *)
(***************************************************************************)
LastEvent(s) == s.log[Len(s.log)]

\* the positions in the log where the operation was started
CallsOf(s, name) ==
  {k \in 1..Len(s.log) : s.log[k].op = "call" /\ s.log[k].name = name}

\* some awaited operation of the invocation threw
SomethingThrew(s) == \E k \in 1..Len(s.log) : s.log[k].op = "throw"

\* the handler body has run to its end (it returned or threw)
HandlerEnded(s) == s.pc = "done" /\ s.out # ValidationFailure

\* out is the normalized failure envelope for the raised error e
IsFailureEnvelope(out, e) ==
  /\ out.kind = "envelope"
  /\ out.isError = TRUE
  /\ Len(out.content) = 1
  /\ out.content[1].type = "text"
  /\ LET text == out.content[1].text
     IN /\ text.t = "string"
        /\ "parts" \in DOMAIN text
        /\ Len(text.parts) = 2
        /\ text.parts[1].v # ": "
        /\ text.parts[2].t = "string"
        /\ (e.t = "error" => text.parts[2] = e.message)

(***************************************************************************)
(* C1.  Every error raised in a handler (while the connection is acquired, *)
(* a remote call is awaited or the result is shaped) is caught in the      *)
(* handler and returned as the envelope "<operation-noun>: <message>" with *)
(* isError set; no invocation ends by throwing to the Host Server.         *)
(* The repo handlers have no try/catch: stated as the claim, refuted.      *)
(***************************************************************************)
C1_ErrorsCaughtInHandler ==
  \A i \in slots :
    LET s == inv[i]
    IN /\ s.out.kind # "thrown"
       /\ (s.pc = "done" /\ s.log # <<>> /\ LastEvent(s).op = "throw")
            => IsFailureEnvelope(s.out, LastEvent(s).arg)

(***************************************************************************)
(* C2.  A list-returning tool whose remote call returns an empty list or   *)
(* no value returns an envelope with isError set and a non-empty text, and *)
(* a content list that is neither empty nor absent.                        *)
(* Only `!result` is tested, and only by the core and work tools: stated   *)
(* as the claim, refuted.                                                  *)
(***************************************************************************)
ListTools ==
  {"core_list_project_teams", "core_list_projects", "work_list_team_iterations",
   "repo_list_repos_by_project", "repo_list_pull_requests_by_repo",
   "repo_list_pull_requests_by_project", "repo_list_pull_request_threads",
   "repo_list_pull_request_thread_comments", "repo_list_branches_by_repo",
   "repo_list_my_branches_by_repo"}

EmptyResult(resp) == Nullish(resp) \/ (resp.t = "array" /\ resp.v = <<>>)

\* C2: a list tool whose remote call returned an empty list or nothing
\* returns an isError envelope with a non-empty text
C2_EmptyResultIsError ==
  \A i \in slots :
    LET s == inv[i]
    IN (s.tool \in ListTools /\ s.pc = "done" /\ s.log # <<>>
          /\ LastEvent(s).op = "return" /\ EmptyResult(LastEvent(s).arg))
       => /\ s.out.kind = "envelope"
          /\ s.out.isError = TRUE
          /\ Len(s.out.content) >= 1
          /\ s.out.content[1].text.t = "string"
          /\ s.out.content[1].text # Str("")

(***************************************************************************)
(* C3.  branchesFilterOutIrrelevantProperties(refs, top) is exactly the    *)
(* first `top` elements of the names of the refs under refs/heads/, in     *)
(* input order and with the prefix removed; filtering comes before         *)
(* truncation.                                                             *)
(* slice(0, top) counts a negative top from the end of the list: stated as *)
(* the claim, refuted.                                                     *)
(***************************************************************************)
RECURSIVE HeadNames(_)
\* the names of the refs under refs/heads/, prefix removed, in input order
HeadNames(refs) ==
  IF refs = <<>> THEN <<>>
  ELSE LET name == Head(refs).v.name
           here == IF name.t = "string" /\ Len(name.v) >= 2
                      /\ name.v[1] = "refs" /\ name.v[2] = "heads"
                   THEN <<Str(Tail(Tail(name.v)))>>
                   ELSE <<>>
       IN here \o HeadNames(Tail(refs))

\* the first n elements of s: all of s if it has fewer, none if n is not
\* positive
FirstN(s, n) ==
  IF n <= 0 THEN <<>> ELSE IF n >= Len(s) THEN s ELSE SubSeq(s, 1, n)

\* the invocation is a branch listing whose getRefs call returned a list
BranchListingReturned(s) ==
  /\ s.tool = REPO_TOOLS.list_branches_by_repo
  /\ s.pc = "done"
  /\ s.log # <<>>
  /\ LastEvent(s).op = "return"
  /\ LastEvent(s).arg.t = "array"

\* C3: the branch listing returns the first `top` head names, in input order
C3_BranchFilterFirstTop ==
  \A i \in slots :
    LET s == inv[i]
    IN BranchListingReturned(s)
       => s.out =
            Envelope(Stringify(Arr(FirstN(HeadNames(LastEvent(s).arg.v),
                                          s.args.top.v))), FALSE)

(***************************************************************************)
(* C4.  A pull-request listing invoked with created_by_me or i_am_reviewer *)
(* set issues exactly one identity lookup and exactly one primary query,   *)
(* the lookup completing before the query is issued.                       *)
(* As stated (C4_ExactlyOneLookupAndQuery) it fails for an invocation whose *)
(* token request, API accessor or lookup fails.  Amended                   *)
(* (C4_LookupBeforeQuery): never more than one lookup and one query, the   *)
(* query is issued only right after the lookup has returned, and an        *)
(* invocation that returns an envelope has issued exactly one of each.     *)
(***************************************************************************)
LookupName == "getCurrentUserDetails"

\* the invocation is a pull-request listing that asks for the user's own
FilteredListing(s) ==
  /\ s.tool \in PullRequestListTools
  /\ s.out # ValidationFailure
  /\ s.pc # "idle"
  /\ (s.args.created_by_me = Bool(TRUE) \/ s.args.i_am_reviewer = Bool(TRUE))

\* C4 as stated: every ended invocation with a flag set issued exactly one
\* lookup and exactly one query
C4_ExactlyOneLookupAndQuery ==
  \A i \in slots :
    LET s == inv[i]
    IN (FilteredListing(s) /\ s.pc = "done")
       => /\ Cardinality(CallsOf(s, LookupName)) = 1
          /\ Cardinality(CallsOf(s, CallName(s.tool))) = 1

\* C4 amended: at most one lookup and one query, the query right after the
\* lookup returned, exactly one of each when an envelope is returned
C4_LookupBeforeQuery ==
  \A i \in slots :
    LET s == inv[i]
        lookups == CallsOf(s, LookupName)
        queries == CallsOf(s, CallName(s.tool))
    IN FilteredListing(s)
       => /\ Cardinality(lookups) <= 1
          /\ Cardinality(queries) <= 1
          /\ \A q \in queries :
               /\ q > 2
               /\ s.log[q - 1].op = "return" /\ s.log[q - 1].name = LookupName
               /\ q - 2 \in lookups
          /\ (s.pc = "done" /\ s.out.kind = "envelope")
               => Cardinality(lookups) = 1 /\ Cardinality(queries) = 1

\* C4: a listing with a flag set returned an envelope after one lookup
C4_Witness ==
  \E i \in slots :
    /\ FilteredListing(inv[i])
    /\ inv[i].pc = "done"
    /\ inv[i].out.kind = "envelope"
    /\ Cardinality(CallsOf(inv[i], LookupName)) = 1

(***************************************************************************)
(* C5.  update_pull_request_status sends status 3 to updatePullRequest for *)
(* "active" and status 2 for "abandoned".                                  *)
(* The handler does not bind `status`, so reading it throws before the     *)
(* remote call is made: stated as the claim, refuted.                      *)
(***************************************************************************)
\* the documented integer of a status name
DocumentedStatus(name) ==
  CASE name = Str("active") -> Num(3)
    [] name = Str("abandoned") -> Num(2)

\* C5: an update whose awaited operations all succeeded called updatePullRequest
\* with the documented integer of its status
C5_StatusSentToRemote ==
  \A i \in slots :
    LET s == inv[i]
    IN (s.tool = REPO_TOOLS.update_pull_request_status /\ HandlerEnded(s)
          /\ ~SomethingThrew(s))
       => \E k \in CallsOf(s, "updatePullRequest") :
            s.log[k].arg.v.pullRequest.v.status = DocumentedStatus(s.raw.status)

(***************************************************************************)
(* C6.  create_iterations and assign_iterations with n items issue exactly *)
(* n remote calls, one at a time and in the order of the array, the k-th   *)
(* carrying the k-th item; when every call returns an object the success   *)
(* envelope lists the n objects in input order.                            *)
(* As stated (C6_ExactlyNCalls) it fails when the token request, the API   *)
(* accessor or one of the calls fails: the loop stops there.  Amended      *)
(* (C6_SequentialCallsInOrder): the calls issued are those for the items   *)
(* 1..m in order, each started after the one before has ended, m = n when  *)
(* no awaited operation failed, and then the envelope is as claimed.       *)
(***************************************************************************)
\* the invocation is a create or assign whose handler has started
IterationRun(s) ==
  s.tool \in IterationTools /\ s.pc # "idle" /\ s.out # ValidationFailure

\* the events of the tool's remote operation, in order
RemoteEvents(s) == SelectSeq(s.log, LAMBDA e : e.name = CallName(s.tool))

\* C6 as stated: every ended invocation with n items issued exactly n calls
C6_ExactlyNCalls ==
  \A i \in slots :
    LET s == inv[i]
    IN (IterationRun(s) /\ s.pc = "done")
       => Cardinality(CallsOf(s, CallName(s.tool))) = Len(s.args.iterations.v)

\* C6 amended: the calls are those of the items 1..m in order, one at a time;
\* m = n and the envelope lists the n results when nothing failed
C6_SequentialCallsInOrder ==
  \A i \in slots :
    LET s == inv[i]
        n == Len(s.args.iterations.v)
        R == RemoteEvents(s)
    IN IterationRun(s)
       => /\ Len(R) <= 2 * n
          /\ \A j \in 1..Len(R) :
               IF j % 2 = 1
               THEN /\ R[j].op = "call"
                    /\ LET item == s.args.iterations.v[(j + 1) \div 2].v
                       IN IF s.tool = WORK_TOOLS.create_iterations
                          THEN /\ R[j].arg.v.name = item.iterationName
                               /\ R[j].arg.v.project = s.args.project
                          ELSE /\ R[j].arg.v.id = item.identifier
                               /\ R[j].arg.v.path = item.path
               ELSE R[j].op \in {"return", "throw"}
          /\ \A j \in 1..Len(R) : (R[j].op = "throw") => (j = Len(R) /\ s.pc = "done")
          /\ (s.pc = "done" /\ ~SomethingThrew(s)) => Len(R) = 2 * n
          /\ (s.pc = "done" /\ ~SomethingThrew(s) /\ n > 0
                /\ \A j \in 1..n : Truthy(R[2 * j].arg))
               => s.out = Envelope(Stringify(Arr([j \in 1..n |-> R[2 * j].arg])), FALSE)

\* C6: two different items, two calls, a success envelope of two objects
C6_Witness ==
  \E i \in slots :
    LET s == inv[i]
    IN /\ IterationRun(s)
       /\ s.pc = "done"
       /\ Len(s.args.iterations.v) = 2
       /\ s.args.iterations.v[1] # s.args.iterations.v[2]
       /\ Len(RemoteEvents(s)) = 4
       /\ s.out.kind = "envelope"
       /\ ~s.out.isError
       /\ Len(s.out.content[1].text.json.v) = 2

(***************************************************************************)
(* C7.  An invocation whose arguments violate the tool's schema ends in a  *)
(* validation failure without the handler body running: it constructs no   *)
(* connection and issues no remote call, and the counts of                 *)
(* getAzureDevOpsClient calls, token requests and connections stay as they *)
(* were.                                                                   *)
(***************************************************************************)
\* the slot holds an invocation whose arguments violate the schema
Rejected(s) == s.pc # "idle" /\ ~SchemaAccepts(s.tool, s.raw)

\* C7: arguments that violate the schema end in a validation failure; the
\* handler does not run and no connection is attempted
C7_InvalidArgumentsNeverReachHandler ==
  /\ [](\A i \in slots :
          Rejected(inv[i])
          => /\ inv[i].pc = "done"
             /\ inv[i].out = ValidationFailure
             /\ inv[i].log = <<>>
             /\ inv[i].conn = NoConnection)
  /\ [][\A i \in slots :
          (inv[i].pc = "idle" /\ Rejected(inv'[i]))
          => UNCHANGED <<clientCalls, tokenRequests, tokenFailures, connLog>>]_vars

\* C7: the first invocation was rejected and nothing was constructed
C7_Witness ==
  \E i \in slots :
    /\ Rejected(inv[i])
    /\ inv[i].out = ValidationFailure
    /\ invCount = 1
    /\ clientCalls = 0
    /\ connLog = <<>>

(***************************************************************************)
(* C8.  With a static secret supplied at startup, every connection any     *)
(* handler constructs is authenticated with that secret and bound to the   *)
(* organization endpoint fixed at startup, and the identity provider is    *)
(* never asked for a token.                                                *)
(* The work module reads its own adoPat and orgUrl, which main leaves      *)
(* undefined: stated as the claim, refuted.                                *)
(***************************************************************************)
\* C8: with a static secret, all connections use it and the startup URL, and
\* no token is requested
C8_StaticSecretUsedByAllHandlers ==
  Truthy(index.adoPat)
  => /\ tokenRequests = 0
     /\ \A k \in 1..Len(connLog) :
          /\ connLog[k].conn.auth = [kind |-> "pat", secret |-> index.adoPat]
          /\ connLog[k].conn.url = index.orgUrl

(***************************************************************************)
(* C9.  Without a static secret, every call of getAzureDevOpsClient asks   *)
(* the identity provider for exactly one token and builds its connection   *)
(* with that token; no connection carries the token of an earlier request; *)
(* a refused request is not repeated and ends the construction without a   *)
(* connection.                                                             *)
(***************************************************************************)
\* the token requests that are still unanswered
PendingTokenRequests == {i \in slots : inv[i].pc = "token"}

\* C9: without a static secret, one token request per getAzureDevOpsClient
\* call, each connection built with the token of its own request, no retry
C9_FreshTokenPerConnection ==
  ~Truthy(index.adoPat)
  => /\ tokenRequests = clientCalls
     /\ Len(connLog) + tokenFailures + Cardinality(PendingTokenRequests)
          = tokenRequests
     /\ \A k \in 1..Len(connLog) :
          /\ connLog[k].conn.auth.kind = "bearer"
          /\ connLog[k].conn.auth.token \in 1..tokenRequests
     /\ \A j, k \in 1..Len(connLog) :
          j # k => connLog[j].conn.auth.token # connLog[k].conn.auth.token
     /\ \A i \in slots :
          LET s == inv[i]
          IN /\ s.conn # NoConnection
                  => s.conn.auth = [kind |-> "bearer", token |-> s.req]
             /\ (s.log # <<>> /\ LastEvent(s) = Ev("throw", "getToken", TokenFailure))
                  => /\ s.pc = "done"
                     /\ s.conn = NoConnection
                     /\ Cardinality(CallsOf(s, "getToken")) = 1

\* C9: two connections were built with bearer tokens and no secret
C9_Witness ==
  /\ ~Truthy(index.adoPat)
  /\ Len(connLog) = 2
  /\ tokenFailures = 0
  /\ connLog[1].ok /\ connLog[1].conn.auth.kind = "bearer"
  /\ connLog[2].ok /\ connLog[2].conn.auth.kind = "bearer"

(***************************************************************************)
(* C10.  When the server starts accepting invocations every tool of every  *)
(* group is registered exactly once; the registrations were all made in    *)
(* the one synchronous run of configureAllTools before server.connect; no  *)
(* identifier is registered twice; nothing is registered afterwards, and   *)
(* no invocation is accepted before.                                       *)
(***************************************************************************)
\* the identifiers of the six groups that register one tool each here
OtherIds == UNION {Range(OtherGroupTools(OTHER_GROUPS[g])) : g \in 1..Len(OTHER_GROUPS)}

\* how often the identifier occurs in the registry
TimesRegistered(id) == Cardinality({k \in 1..Len(registry) : registry[k] = id})

\* C10: once the server runs, every tool is registered exactly once, all in
\* the one run of configureAllTools before connect, and none afterwards
C10_AllToolsRegisteredBeforeConnect ==
  /\ [](mainpc = "running"
          => /\ \A id \in CoreIds \cup WorkIds \cup RepoIds \cup OtherIds :
                  TimesRegistered(id) = 1
             /\ \A k \in 1..Len(registry) : TimesRegistered(registry[k]) = 1)
  /\ [](\A i \in slots : inv[i].pc # "idle" => mainpc = "running")
  /\ [][registry' # registry
          => (registry = <<>> /\ mainpc = "tools" /\ mainpc' = "connect")]_vars

\* C10: the server runs with the full registry and has accepted an invocation
C10_Witness ==
  /\ mainpc = "running"
  /\ invCount > 0
  /\ Len(registry) = Cardinality(CoreIds \cup WorkIds \cup RepoIds \cup OtherIds)
  /\ REPO_TOOLS.resolve_comment \in Range(registry)

(***************************************************************************)
(* C11.  Every envelope a handler returns, whatever the remote service     *)
(* answered, has a content list of exactly one block of type text whose    *)
(* text is a string; when isError is set the text is a diagnostic and not  *)
(* the serialized remote payload.                                          *)
(* JSON.stringify(undefined) is undefined: a repo handler whose shaped     *)
(* result is undefined returns a block without a text.  Stated as the      *)
(* claim, refuted.                                                         *)
(***************************************************************************)
\* the text is the JSON serialization of a value
IsSerializedPayload(text) == "json" \in DOMAIN text

\* C11: every returned envelope is one text block with a string text, and an
\* error envelope does not carry a serialized payload
C11_EnvelopeIsOneTextBlock ==
  \A i \in slots :
    LET s == inv[i]
    IN (s.pc = "done" /\ s.out.kind = "envelope")
       => /\ Len(s.out.content) = 1
          /\ s.out.content[1].type = "text"
          /\ s.out.content[1].text.t = "string"
          /\ s.out.isError => ~IsSerializedPayload(s.out.content[1].text)

(***************************************************************************)
(* C12.  After startup no handler invocation changes the process-wide      *)
(* configuration (index.ts's orgName, adoPat, debug and orgUrl, the work   *)
(* and repo modules' own orgUrl and adoPat) or the tool registry: they are *)
(* written during startup only.                                            *)
(***************************************************************************)
\* C12: the configuration and the registry change in no step taken while
\* the server runs; the work module's pair and the registry change only in
\* configureAllTools, the rest never
C12_ConfigurationWrittenOnlyAtStartup ==
  [][/\ mainpc = "running" => UNCHANGED <<argv, index, workCfg, repoCfg, registry>>
     /\ (workCfg' # workCfg \/ registry' # registry) => mainpc = "tools"
     /\ UNCHANGED <<argv, index, repoCfg>>]_vars

\* C12: two invocations were dispatched, a work handler has run to its end,
\* and the configuration is the one startup left
C12_Witness ==
  /\ mainpc = "running"
  /\ invCount = 2
  /\ registry # <<>>
  /\ workCfg = [orgUrl |-> Undef, adoPat |-> Undef]
  /\ index = IndexOf(argv)
  /\ \E i \in slots : inv[i].tool \in WorkIds /\ HandlerEnded(inv[i])

(***************************************************************************)
(* C13.  Invocations that interleave at their awaits each construct and    *)
(* use a connection of their own, never one another invocation made, and   *)
(* each returns the envelope it would return alone with the same remote    *)
(* answers.                                                                *)
(***************************************************************************)
\* the objects the loop collected, read from the invocation's own history
ReturnedObjects(s) ==
  LET returns == SelectSeq(s.log, LAMBDA e : e.name = CallName(s.tool)
                                             /\ e.op = "return" /\ Truthy(e.arg))
  IN [k \in 1..Len(returns) |-> returns[k].arg]

\* how the handler ends when it runs alone and is answered as its own
\* history says
AloneOutcome(s) ==
  LET last == LastEvent(s)
  IN CASE last.op = "throw" -> OnError(s.tool, last.arg)
       [] s.tool \in IterationTools -> ShapeResults(s.tool, ReturnedObjects(s))
       [] last.op = "return" -> Shape(s.tool, Parse(s.tool, s.raw), last.arg)
       [] OTHER -> OnError(s.tool, ReferenceError("status"))

\* C13: a connection in a slot is the one its own invocation constructed,
\* the API accessor is called on that connection, two invocations in flight
\* hold different connections, and an ended handler's outcome follows from
\* its own arguments and answers
C13_InvocationsUseOwnConnection ==
  \A i \in slots :
    LET s == inv[i]
    IN /\ s.cid # 0
            => /\ s.cid \in 1..Len(connLog)
               /\ connLog[s.cid] = Construction(s.conn, ByHandler(s.id), TRUE)
       /\ s.cid = 0 => (s.conn = NoConnection /\ CallsOf(s, ApiOf(s.tool)) = {})
       /\ \A k \in CallsOf(s, ApiOf(s.tool)) : s.cid # 0 /\ s.log[k].arg = Num(s.cid)
       /\ \A j \in slots \ {i} :
            /\ (s.cid # 0 /\ inv[j].cid # 0) => s.cid # inv[j].cid
            /\ (s.pc # "idle" /\ inv[j].pc # "idle") => s.id # inv[j].id
       /\ HandlerEnded(s) => s.out = AloneOutcome(s)

\* C13: the invocation dispatched second has returned its envelope while the
\* first still awaits its remote call, each on a connection of its own
C13_Witness ==
  \E i, j \in slots :
    /\ i # j
    /\ inv[i].id < inv[j].id
    /\ inv[i].pc = "call" /\ inv[i].cid # 0
    /\ inv[j].pc = "done" /\ inv[j].cid # 0 /\ inv[j].out.kind = "envelope"
    /\ inv[j].cid < inv[i].cid

(***************************************************************************)
(* C14.  In create_iterations and assign_iterations, when the remote call  *)
(* for the k-th item raises, the handler issues no call for a later item,  *)
(* does not repeat the failed call, and returns the failure envelope       *)
(* "Error creating iterations: <message>" (resp. "Error assigning          *)
(* iterations: <message>"), which reports none of the k-1 objects the      *)
(* earlier calls returned.                                                 *)
(***************************************************************************)
\* the text the claim puts before the message
IterationErrorPrefix(tool) ==
  IF tool = WORK_TOOLS.create_iterations
  THEN "Error creating iterations: "
  ELSE "Error assigning iterations: "

\* the message of what was thrown: the error's own, or the fixed text for a
\* thrown value that is no Error
ThrownMessage(e) ==
  IF e.t = "error" THEN e.message ELSE Str("Unknown error occurred")

\* C14: a raise by the k-th call is the last remote event, the calls before
\* it are those of the items 1..k once each, and the handler has ended with
\* the failure envelope of the tool, which carries the message only
C14_FailedCallEndsTheLoop ==
  \A i \in slots :
    LET s == inv[i]
        R == RemoteEvents(s)
    IN (IterationRun(s) /\ \E j \in 1..Len(R) : R[j].op = "throw")
       => LET k == Len(R) \div 2
              e == R[Len(R)].arg
          IN /\ Len(R) = 2 * k
             /\ k \in 1..Len(s.args.iterations.v)
             /\ R[2 * k].op = "throw"
             /\ \A j \in 1..k :
                  /\ R[2 * j - 1] = Ev("call", CallName(s.tool),
                                       ItemRequest(s.tool, s.args, j))
                  /\ j < k => R[2 * j].op = "return"
             /\ LastEvent(s) = R[Len(R)]
             /\ s.pc = "done"
             /\ s.out = Envelope(TemplateOf(<<Str(IterationErrorPrefix(s.tool)),
                                              ThrownMessage(e)>>), TRUE)
             /\ ~IsSerializedPayload(s.out.content[1].text)

\* C14: the first call returned an object, the second raised an Error, and
\* the handler has ended
C14_Witness ==
  \E i \in slots :
    LET s == inv[i]
        R == RemoteEvents(s)
    IN /\ IterationRun(s)
       /\ s.pc = "done"
       /\ Len(s.args.iterations.v) = 2
       /\ Len(R) = 4
       /\ R[2].op = "return" /\ Truthy(R[2].arg)
       /\ R[4].op = "throw" /\ R[4].arg.t = "error"
       /\ s.out.kind = "envelope" /\ s.out.isError

(***************************************************************************)
(* C15.  create_iterations (resp. assign_iterations) returns the failure   *)
(* envelope "No iterations were created" (resp. "No iterations were        *)
(* assigned to the team") exactly when no remote call raised and none      *)
(* returned an object, the empty input array included; when at least one   *)
(* call returned an object the envelope is a success that lists the        *)
(* returned objects only.                                                  *)
(***************************************************************************)
\* the text the claim gives for a run that collected nothing
NothingDoneText(tool) ==
  IF tool = WORK_TOOLS.create_iterations
  THEN "No iterations were created"
  ELSE "No iterations were assigned to the team"

\* the answers of the tool's remote calls that are objects, in call order
ObjectsReturned(s) ==
  LET R == RemoteEvents(s)
      at == {j \in 1..Len(R) : R[j].op = "return" /\ R[j].arg.t = "object"}
      nth[n \in 0..Len(R)] ==
        IF n = 0 THEN <<>>
        ELSE IF n \in at THEN Append(nth[n - 1], R[n].arg) ELSE nth[n - 1]
  IN nth[Len(R)]

\* C15: an ended create or assign returns the nothing-done failure envelope
\* exactly when nothing was raised and no call returned an object, and a
\* success envelope of the returned objects when nothing was raised and
\* some call returned one
C15_NothingDoneExactlyWhenNoObject ==
  \A i \in slots :
    LET s == inv[i]
        objects == ObjectsReturned(s)
        nothing == Envelope(Str(NothingDoneText(s.tool)), TRUE)
    IN (IterationRun(s) /\ s.pc = "done")
       => /\ s.out = nothing <=> (~SomethingThrew(s) /\ objects = <<>>)
          /\ (~SomethingThrew(s) /\ objects # <<>>)
               => s.out = Envelope([t |-> "string", json |-> Arr(objects)], FALSE)

\* C15: of two calls one returned nothing and the other an object, and the
\* success envelope lists that one object
C15_Witness ==
  \E i \in slots :
    LET s == inv[i]
        R == RemoteEvents(s)
    IN /\ IterationRun(s)
       /\ s.pc = "done"
       /\ Len(R) = 4
       /\ R[2].op = "return" /\ R[2].arg = Null
       /\ R[4].op = "return" /\ R[4].arg.t = "object"
       /\ s.out = Envelope([t |-> "string", json |-> Arr(<<R[4].arg>>)], FALSE)

(***************************************************************************)
(* C16.  In list_pull_requests_by_repo and list_pull_requests_by_project   *)
(* the search criteria sent to the primary query always carry status 1,    *)
(* carry creatorId equal to the looked-up user id if and only if           *)
(* created_by_me is true, and reviewerId equal to that id if and only if   *)
(* i_am_reviewer is true; with both flags false no identity lookup is      *)
(* issued.                                                                 *)
(***************************************************************************)
\* the invocation is a pull-request listing whose handler has started
PullRequestListRun(s) ==
  s.tool \in PullRequestListTools /\ s.pc # "idle" /\ s.out # ValidationFailure

\* the user ids the identity lookup answered in this invocation
LookedUpIds(s) ==
  {s.log[k].arg : k \in {j \in 1..Len(s.log) :
                           /\ s.log[j].op = "return"
                           /\ s.log[j].name = "getCurrentUserDetails"}}

\* C16: every primary query carries status 1 and the looked-up id in
\* exactly the fields whose flag is true, the other field being unset; no
\* flag, no lookup
C16_CriteriaFollowFlags ==
  \A i \in slots :
    LET s == inv[i]
        byMe == s.args.created_by_me = Bool(TRUE)
        reviewer == s.args.i_am_reviewer = Bool(TRUE)
    IN PullRequestListRun(s)
       => /\ \A k \in CallsOf(s, CallName(s.tool)) :
               LET criteria == s.log[k].arg.v.searchCriteria.v
               IN /\ criteria.status = Num(1)
                  /\ byMe <=> criteria.creatorId \in LookedUpIds(s)
                  /\ reviewer <=> criteria.reviewerId \in LookedUpIds(s)
                  /\ ~byMe => criteria.creatorId = Undef
                  /\ ~reviewer => criteria.reviewerId = Undef
                  /\ (byMe \/ reviewer) => Cardinality(LookedUpIds(s)) = 1
          /\ (~byMe /\ ~reviewer) => CallsOf(s, "getCurrentUserDetails") = {}

\* C16: a listing asked with created_by_me only has sent its query with the
\* looked-up id as creatorId and no reviewerId
C16_Witness ==
  \E i \in slots :
    LET s == inv[i]
    IN /\ PullRequestListRun(s)
       /\ s.args.created_by_me = Bool(TRUE)
       /\ s.args.i_am_reviewer = Bool(FALSE)
       /\ \E k \in CallsOf(s, CallName(s.tool)) :
            /\ s.log[k].arg.v.searchCriteria.v.creatorId \in LookedUpIds(s)
            /\ s.log[k].arg.v.searchCriteria.v.reviewerId = Undef

(***************************************************************************)
(* C17.  For every list of refs and every top the list_branches_by_repo    *)
(* schema accepts (any number, so zero and negative values too), the       *)
(* number of branch names returned is at most max(top, 0) and at most the  *)
(* number of refs under refs/heads/.                                       *)
(* slice(0, top) with a negative top keeps all but the last -top names:    *)
(* stated as the claim, refuted.                                           *)
(***************************************************************************)
\* the larger of two integers
Max(a, b) == IF a >= b THEN a ELSE b

\* C17: a branch listing returns at most max(top, 0) names and at most as
\* many as there are refs under refs/heads/
C17_BranchCountWithinTop ==
  \A i \in slots :
    LET s == inv[i]
    IN BranchListingReturned(s)
       => /\ s.out.kind = "envelope"
          /\ IsSerializedPayload(s.out.content[1].text)
          /\ LET names == s.out.content[1].text.json.v
             IN /\ Len(names) <= Max(s.args.top.v, 0)
                /\ Len(names) <= Len(HeadNames(LastEvent(s).arg.v))

(***************************************************************************)
(* C18.  The two lookup tools treat a missing target differently.          *)
(* get_branch_by_name, when no ref named refs/heads/<branchName> exists,   *)
(* returns an envelope with the text "Branch <branchName> not found in     *)
(* repository <repositoryId>" and without the error flag;                  *)
(* get_repo_by_name_or_id, when no repository matches by name or id,       *)
(* raises an error out of the handler.                                     *)
(***************************************************************************)
\* the invocation of the tool has ended after its remote call returned
LookupReturned(s, tool) ==
  /\ s.tool = tool
  /\ s.pc = "done"
  /\ s.log # <<>>
  /\ LastEvent(s).op = "return"
  /\ LastEvent(s).name = CallName(tool)

\* the positions of the listed refs named refs/heads/<branchName>
BranchHits(list, branchName) ==
  IF list.t # "array" THEN {}
  ELSE {k \in 1..Len(list.v) :
          list.v[k].v.name = Str(<<"refs", "heads">> \o branchName.v)}

\* the positions of the listed repositories whose name or id is nameOrId
RepositoryHits(list, nameOrId) ==
  IF list.t # "array" THEN {}
  ELSE {k \in 1..Len(list.v) :
          list.v[k].v.name = nameOrId \/ list.v[k].v.id = nameOrId}

\* the least element of a non-empty set of positions
First(hits) == CHOOSE k \in hits : \A j \in hits : k <= j

\* C18: a missing branch ends in a plain envelope with the not-found text,
\* a missing repository in an error raised out of the handler; a target
\* that is listed is returned
C18_MissingBranchReturnsMissingRepoRaises ==
  \A i \in slots :
    LET s == inv[i]
        list == LastEvent(s).arg
    IN /\ LookupReturned(s, REPO_TOOLS.get_branch_by_name)
            => LET hits == BranchHits(list, s.args.branchName)
               IN IF hits = {}
                  THEN /\ s.out.kind = "envelope"
                       /\ s.out.isError = FALSE
                       /\ s.out.content =
                            <<[type |-> "text",
                               text |-> TemplateOf(<<Str("Branch "), s.args.branchName,
                                                     Str(" not found in repository "),
                                                     s.args.repositoryId>>)]>>
                  ELSE s.out = Envelope([t |-> "string",
                                         json |-> list.v[First(hits)]], FALSE)
       /\ LookupReturned(s, REPO_TOOLS.get_repo_by_name_or_id)
            => LET hits == RepositoryHits(list, s.args.repositoryNameOrId)
               IN IF hits = {}
                  THEN /\ s.out.kind = "thrown"
                       /\ s.out.error.t = "error"
                       /\ s.out.error.message =
                            TemplateOf(<<Str("Repository "), s.args.repositoryNameOrId,
                                         Str(" not found in project "), s.args.project>>)
                  ELSE s.out = Envelope([t |-> "string",
                                         json |-> list.v[First(hits)]], FALSE)

\* C18: get_repo_by_name_or_id was answered a list with a repository of
\* another name and id, and an error left its handler
C18_Witness ==
  \E i \in slots :
    LET s == inv[i]
    IN /\ LookupReturned(s, REPO_TOOLS.get_repo_by_name_or_id)
       /\ LastEvent(s).arg.t = "array"
       /\ LastEvent(s).arg.v # <<>>
       /\ RepositoryHits(LastEvent(s).arg, s.args.repositoryNameOrId) = {}
       /\ s.out.kind = "thrown"

\* C18: get_branch_by_name was answered a list of other refs and returned
\* the not-found text without the error flag
C18_WitnessBranch ==
  \E i \in slots :
    LET s == inv[i]
    IN /\ LookupReturned(s, REPO_TOOLS.get_branch_by_name)
       /\ LastEvent(s).arg.t = "array"
       /\ LastEvent(s).arg.v # <<>>
       /\ BranchHits(LastEvent(s).arg, s.args.branchName) = {}
       /\ s.out.kind = "envelope"
       /\ ~s.out.isError

=============================================================================
